---------------------------- MODULE Spec2Model ----------------------------
(***************************************************************************)
(* Model of the two ENA metadata notebooks:                                *)
(*   retrieve_sequence_metadata.ipynb  (get_sequence_metadata,             *)
(*                                      SequenceMetadata)                  *)
(*   retrieve_run_metadata.ipynb       (get_run_metadata, RunMetadata)     *)
(* Strings are tuples of one-character strings, so that split, strip,      *)
(* strptime and isoformat are computed character by character.             *)
(***************************************************************************)
EXTENDS Integers, Sequences, FiniteSets, TLC

(***************************************************************************)
(* Bounds of the model.                                                    *)
(***************************************************************************)
\* largest n_tries a call is made with
MaxTries == 3
\* number of decimal places a float is held with
FracDigits == 4
\* longest run of Z put before and after a raw date
MaxZ == 2
\* largest number of pieces a raw country string is put together from
MaxPieces == 3

(***************************************************************************)
(* Python / JSON values.  Each kind of value is a record with its own      *)
(* field name, so that values of different kinds compare unequal.          *)
(***************************************************************************)
None == [none |-> TRUE]
Str(s) == [str |-> s]
Num(n) == [num |-> n]
IsNone(v) == "none" \in DOMAIN v
IsStr(v) == "str" \in DOMAIN v
IsNum(v) == "num" \in DOMAIN v

(***************************************************************************)
(* The accession lists and the requested fields (cell 2 of each notebook). *)
(***************************************************************************)
SEQUENCE_ACCESSIONS == <<"CP025066", "CP003099", "CP019400", "CP080467", "CP093911">>
RUN_ACCESSIONS == <<"SRR7091408", "SRR3993031", "SRR30564975", "ERR9632109">>
FIELDS == <<"run_accession", "study_accession", "sample_accession",
            "library_strategy", "library_source", "sample_description",
            "first_public", "country", "location", "collection_date_start",
            "collection_date_end", "tax_id", "host_tax_id">>

Range(f) == {f[i] : i \in DOMAIN f}

(***************************************************************************)
(* Entries the archive can answer with.  A run entry carries every         *)
(* requested field, as a string that may be empty; a sequence summary      *)
(* carries the fields the archive knows.                                   *)
(***************************************************************************)
RunEntry(vals) == [k \in Range(FIELDS) |-> IF k \in DOMAIN vals THEN Str(vals[k]) ELSE Str(<<>>)]

RunRequired ==
    [run_accession |-> <<"S", "R", "R", "1">>, study_accession |-> <<"P", "R", "J", "1">>,
     sample_accession |-> <<"S", "A", "M", "N", "1">>, library_strategy |-> <<"W", "G", "S">>,
     library_source |-> <<"G", "E", "N", "O", "M", "I", "C">>]

RunEntryMin == RunEntry(RunRequired)
RunEntryFull ==
    RunEntry(RunRequired @@
             [sample_description |-> <<"s", "o", "i", "l">>, first_public |-> <<"2", "0", "1", "8", "-", "0", "5", "-", "0", "3">>,
              country |-> <<"B", "r", "a", "z", "i", "l">>, location |-> <<"1", "9", ".", "2", " ", "S", " ", "4", "3", ".", "5", " ", "W">>,
              collection_date_start |-> <<"2", "0", "1", "7", "-", "0", "3">>,
              collection_date_end |-> <<"2", "0", "1", "7">>, tax_id |-> <<"9", "6", "0", "6">>])
RunEntryEmpty == RunEntry(<<>>)
RunEntries == {RunEntryMin, RunEntryFull, RunEntryEmpty}

SeqEntryNoPub ==
    [accession |-> Str(<<"C", "P", "1">>), description |-> Str(<<"g", "e", "n", "o", "m", "e">>),
     version |-> Num(1), project |-> Str(<<"P", "R", "J", "1">>), sample |-> Str(<<"S", "A", "M", "N", "1">>),
     moleculeType |-> Str(<<"D", "N", "A">>), taxon |-> Str(<<"1", "7", "4", "8">>),
     dataType |-> Str(<<"S", "E", "Q", "U", "E", "N", "C", "E">>), dataClass |-> Str(<<"S", "T", "D">>),
     firstPublic |-> Str(<<"0", "1", "-", "S", "e", "p", "-", "2", "0", "1", "8">>), lastUpdated |-> Str(<<"2", "8", "-", "N", "o", "v", "-", "2", "0", "1", "9">>),
     status |-> Num(4), statusDescription |-> Str(<<"p", "u", "b", "l", "i", "c">>),
     sequenceLength |-> Num(2136808)]
SeqEntryEmpty == [accession |-> Str(<<>>), description |-> Str(<<>>)]
Publications == [list |-> <<[source |-> Str(<<"P", "U", "B", "M", "E", "D">>), pId |-> Str(<<"3", "1", "1", "6", "6", "1", "5", "8">>)]>>]
SeqEntryPub == SeqEntryNoPub @@ [publications |-> Publications]
SeqEntries == {SeqEntryNoPub, SeqEntryPub, SeqEntryEmpty}

(***************************************************************************)
(* The answer to one HTTP GET: requests.get or raise_for_status raises a   *)
(* RequestException, or the body parses as JSON.                           *)
(***************************************************************************)
TransportErrors == {"ConnectionError", "HTTPError"}

SeqJsons ==
    {[summaries |-> <<>>], [summaries |-> <<SeqEntryNoPub, SeqEntryEmpty>>]}
    \cup {[summaries |-> <<en>>] : en \in SeqEntries}
RunJsons == {[array |-> <<>>]} \cup {[array |-> <<en>>] : en \in RunEntries}

Responses(k) ==
    {[kind |-> "error", exc |-> x] : x \in TransportErrors}
    \cup {[kind |-> "ok", json |-> j] : j \in (IF k = "seq" THEN SeqJsons ELSE RunJsons)}

NoResponse == [kind |-> "none"]
Unbound == [unbound |-> TRUE]
Running == [running |-> TRUE]

(***************************************************************************)
(* Python's str methods, on tuples of characters.                          *)
(***************************************************************************)
Whitespace == {" ", "\t"}
UpperCase == <<"A", "B", "C", "D", "E", "F", "G", "H", "I", "J", "K", "L", "M", "N", "O", "P", "Q", "R", "S", "T", "U", "V", "W", "X", "Y", "Z">>
LowerCase == <<"a", "b", "c", "d", "e", "f", "g", "h", "i", "j", "k", "l", "m", "n", "o", "p", "q", "r", "s", "t", "u", "v", "w", "x", "y", "z">>
DigitChars == <<"0", "1", "2", "3", "4", "5", "6", "7", "8", "9">>

IsDigit(c) == \E i \in 1..10 : DigitChars[i] = c
DigitVal(c) == (CHOOSE i \in 1..10 : DigitChars[i] = c) - 1
AllDigits(s) == \A i \in 1..Len(s) : IsDigit(s[i])

\* str.lower / str.casefold, one character
LowerChar(c) ==
    IF \E i \in 1..26 : UpperCase[i] = c
      THEN LowerCase[CHOOSE i \in 1..26 : UpperCase[i] = c]
      ELSE c
Lower(s) == [i \in 1..Len(s) |-> LowerChar(s[i])]

\* s.split(c): the pieces of s between the occurrences of c
RECURSIVE Split(_, _)
Split(s, c) ==
    IF \A i \in 1..Len(s) : s[i] # c
      THEN <<s>>
      ELSE LET i == CHOOSE k \in 1..Len(s) : s[k] = c /\ \A j \in 1..(k - 1) : s[j] # c
           IN  <<SubSeq(s, 1, i - 1)>> \o Split(SubSeq(s, i + 1, Len(s)), c)

RECURSIVE LStrip(_, _)
LStrip(s, cs) == IF Len(s) > 0 /\ s[1] \in cs THEN LStrip(Tail(s), cs) ELSE s
RECURSIVE RStrip(_, _)
RStrip(s, cs) ==
    IF Len(s) > 0 /\ s[Len(s)] \in cs THEN RStrip(SubSeq(s, 1, Len(s) - 1), cs) ELSE s
\* s.strip(chars)
StripChars(s, cs) == RStrip(LStrip(s, cs), cs)
\* s.strip()
Strip(s) == StripChars(s, Whitespace)

\* s.split(): the maximal runs of non-whitespace characters
RECURSIVE Tokens(_)
Tokens(s) ==
    LET t == LStrip(s, Whitespace)
    IN  IF Len(t) = 0
          THEN <<>>
          ELSE LET n == IF \E k \in 1..Len(t) : t[k] \in Whitespace
                          THEN (CHOOSE k \in 1..Len(t) :
                                   t[k] \in Whitespace /\ \A j \in 1..(k - 1) : t[j] \notin Whitespace) - 1
                          ELSE Len(t)
               IN  <<SubSeq(t, 1, n)>> \o Tokens(SubSeq(t, n + 1, Len(t)))

RECURSIVE ToNat(_)
ToNat(s) == IF Len(s) = 0 THEN 0 ELSE 10 * ToNat(SubSeq(s, 1, Len(s) - 1)) + DigitVal(s[Len(s)])

RECURSIVE Pow10(_)
Pow10(n) == IF n = 0 THEN 1 ELSE 10 * Pow10(n - 1)

\* the decimal digits of n, zero-padded to width w
RECURSIVE Padded(_, _)
Padded(n, w) == IF w = 0 THEN <<>> ELSE Append(Padded(n \div 10, w - 1), DigitChars[(n % 10) + 1])

ValueError == [error |-> "ValueError"]
IsError(v) == "error" \in DOMAIN v

(***************************************************************************)
(* datetime.strptime(data, fmt).date() for the formats the notebooks use,  *)
(* and date.isoformat().                                                   *)
(***************************************************************************)
MonthNames ==
    << <<"j", "a", "n", "u", "a", "r", "y">>, <<"f", "e", "b", "r", "u", "a", "r", "y">>, <<"m", "a", "r", "c", "h">>, <<"a", "p", "r", "i", "l">>, <<"m", "a", "y">>, <<"j", "u", "n", "e">>, <<"j", "u", "l", "y">>,
       <<"a", "u", "g", "u", "s", "t">>, <<"s", "e", "p", "t", "e", "m", "b", "e", "r">>, <<"o", "c", "t", "o", "b", "e", "r">>, <<"n", "o", "v", "e", "m", "b", "e", "r">>, <<"d", "e", "c", "e", "m", "b", "e", "r">> >>
MonthAbbrs ==
    << <<"j", "a", "n">>, <<"f", "e", "b">>, <<"m", "a", "r">>, <<"a", "p", "r">>, <<"m", "a", "y">>, <<"j", "u", "n">>, <<"j", "u", "l">>, <<"a", "u", "g">>, <<"s", "e", "p">>,
       <<"o", "c", "t">>, <<"n", "o", "v">>, <<"d", "e", "c">> >>

IsLeap(y) == (y % 4 = 0 /\ y % 100 # 0) \/ y % 400 = 0
DaysInMonth(y, m) ==
    IF m = 2 THEN (IF IsLeap(y) THEN 29 ELSE 28)
    ELSE IF m \in {4, 6, 9, 11} THEN 30 ELSE 31

\* datetime(y, m, d): a date, or ValueError when the day or year is out of range
MakeDate(y, m, d) ==
    IF y >= 1 /\ m \in 1..12 /\ d >= 1 /\ d <= DaysInMonth(y, m)
      THEN [y |-> y, m |-> m, d |-> d]
      ELSE ValueError
IsDate(v) == "y" \in DOMAIN v

\* the directives' regular expressions, matched against a whole piece
MatchY(s) == Len(s) = 4 /\ AllDigits(s)
Matchm(s) == Len(s) \in {1, 2} /\ AllDigits(s) /\ ToNat(s) \in 1..12
Matchd(s) ==
    \/ Len(s) \in {1, 2} /\ AllDigits(s) /\ ToNat(s) \in 1..31
    \/ Len(s) = 2 /\ s[1] = " " /\ IsDigit(s[2]) /\ s[2] # "0"
DayOf(s) == ToNat(LStrip(s, {" "}))
NameIndex(names, s) ==
    IF \E i \in 1..12 : names[i] = Lower(s)
      THEN CHOOSE i \in 1..12 : names[i] = Lower(s)
      ELSE 0

Strptime(data, fmt) ==
    LET p == Split(data, "-")
    IN  CASE fmt = "%Y-%m-%d" ->
               IF Len(p) = 3 /\ MatchY(p[1]) /\ Matchm(p[2]) /\ Matchd(p[3])
                 THEN MakeDate(ToNat(p[1]), ToNat(p[2]), DayOf(p[3]))
                 ELSE ValueError
          [] fmt = "%Y" ->
               IF MatchY(data) THEN MakeDate(ToNat(data), 1, 1) ELSE ValueError
          [] fmt = "%Y-%m" ->
               IF Len(p) = 2 /\ MatchY(p[1]) /\ Matchm(p[2])
                 THEN MakeDate(ToNat(p[1]), ToNat(p[2]), 1)
                 ELSE ValueError
          [] fmt = "%B %Y" ->
               \* a month name, whitespace, a year
               LET t == Tokens(data)
               IN  IF /\ Len(t) = 2
                      /\ Len(data) > 0
                      /\ data[1] \notin Whitespace
                      /\ data[Len(data)] \notin Whitespace
                      /\ NameIndex(MonthNames, t[1]) # 0
                      /\ MatchY(t[2])
                     THEN MakeDate(ToNat(t[2]), NameIndex(MonthNames, t[1]), 1)
                     ELSE ValueError
          [] fmt = "%d-%b-%Y" ->
               IF /\ Len(p) = 3
                  /\ Matchd(p[1])
                  /\ NameIndex(MonthAbbrs, p[2]) # 0
                  /\ MatchY(p[3])
                 THEN MakeDate(ToNat(p[3]), NameIndex(MonthAbbrs, p[2]), DayOf(p[1]))
                 ELSE ValueError

\* date.isoformat(), which to_jsonable_python applies to a date
IsoFormat(dt) == Padded(dt.y, 4) \o <<"-">> \o Padded(dt.m, 2) \o <<"-">> \o Padded(dt.d, 2)

(***************************************************************************)
(* float(s): an optional sign, digits, an optional point and digits.  A    *)
(* float is held as the integer number of 10^-FracDigits units.            *)
(***************************************************************************)
IsFloat(v) == "float" \in DOMAIN v
ParseFloat(s) ==
    LET neg  == Len(s) > 0 /\ s[1] = "-"
        body == IF Len(s) > 0 /\ s[1] \in {"-", "+"} THEN Tail(s) ELSE s
        p    == Split(body, ".")
        ip   == p[1]
        fp   == IF Len(p) = 2 THEN p[2] ELSE <<>>
    IN  IF /\ Len(p) \in {1, 2}
           /\ AllDigits(ip) /\ AllDigits(fp)
           /\ Len(ip) + Len(fp) > 0
           /\ Len(fp) <= FracDigits
          THEN [float |-> (IF neg THEN -1 ELSE 1)
                            * (ToNat(ip) * Pow10(FracDigits)
                               + ToNat(fp) * Pow10(FracDigits - Len(fp)))]
          ELSE ValueError

(***************************************************************************)
(* The country registry behind pycountry.countries.lookup: a lookup is by  *)
(* any of a country's names and codes, letter case ignored.                *)
(***************************************************************************)
Countries ==
    { [name |-> <<"B", "r", "a", "z", "i", "l">>, keys |-> {<<"b", "r", "a", "z", "i", "l">>, <<"b", "r">>, <<"b", "r", "a">>}],
      [name |-> <<"R", "u", "s", "s", "i", "a", "n", " ", "F", "e", "d", "e", "r", "a", "t", "i", "o", "n">>, keys |-> {<<"r", "u", "s", "s", "i", "a", "n", " ", "f", "e", "d", "e", "r", "a", "t", "i", "o", "n">>, <<"r", "u">>, <<"r", "u", "s">>}],
      [name |-> <<"U", "n", "i", "t", "e", "d", " ", "S", "t", "a", "t", "e", "s">>, keys |-> {<<"u", "n", "i", "t", "e", "d", " ", "s", "t", "a", "t", "e", "s">>, <<"u", "s">>, <<"u", "s", "a">>}] }

LookupError == [error |-> "LookupError"]
Lookup(s) ==
    IF \E c \in Countries : Lower(s) \in c.keys
      THEN Str((CHOOSE c \in Countries : Lower(s) \in c.keys).name)
      ELSE LookupError

(***************************************************************************)
(* The field validators of RunMetadata and SequenceMetadata.  A validator  *)
(* is handed whatever value the raw mapping holds for the field.           *)
(***************************************************************************)
AttributeError == [error |-> "AttributeError"]
InvalidValue(field_name, data) == [error |-> "ValueError", field |-> field_name, value |-> data]

date_formats == <<"%Y-%m-%d", "%Y", "%Y-%m", "%B %Y">>

\* for fmt in date_formats: try: return strptime(data, fmt) except ValueError: continue
RECURSIVE FirstFormat(_, _, _)
FirstFormat(data, fmts, field_name) ==
    IF Len(fmts) = 0
      THEN InvalidValue(field_name, data)
      ELSE LET r == Strptime(data, Head(fmts))
           IN  IF IsDate(r) THEN r ELSE FirstFormat(data, Tail(fmts), field_name)

\* data.strip("Z")
StripZ(s) == StripChars(s, {"Z"})

\* RunMetadata.parse_single_timestamp
Run_parse_single_timestamp(data, field_name) ==
    IF ~IsStr(data)
      THEN AttributeError
      ELSE FirstFormat(StripZ(data.str), date_formats, field_name)

\* SequenceMetadata.parse_single_timestamp
Seq_parse_single_timestamp(data, field_name) ==
    IF ~IsStr(data)
      THEN [error |-> "TypeError"]
      ELSE LET r == Strptime(data.str, "%d-%b-%Y")
           IN  IF IsDate(r) THEN r ELSE InvalidValue(field_name, data.str)

\* a prefix that is not cut at "/"
CountryPrefix_NoSlash(s) == Strip(Split(Split(Split(s, ":")[1], ",")[1], ";")[1])
\* data.split(":")[0].split(",")[0].split(";")[0].split("/")[0].strip()
CountryPrefix(s) ==
    Strip(Split(Split(Split(Split(s, ":")[1], ",")[1], ";")[1], "/")[1])

\* the name of the first lookup
CountryName(s) ==
    LET country_name == CountryPrefix(s)
    IN  IF Lower(country_name) = <<"r", "u", "s", "s", "i", "a">> THEN <<"R", "u", "s", "s", "i", "a", "n", " ", "F", "e", "d", "e", "r", "a", "t", "i", "o", "n">> ELSE country_name

\* the string the handler takes the parenthesized alternative from
AltSource(s) == CountryName(s)

\* country_name.split("(")[1].split(")")[0], or IndexError
AltName(s) ==
    LET p == Split(AltSource(s), "(")
    IN  IF Len(p) < 2 THEN [error |-> "IndexError"] ELSE Str(Split(p[2], ")")[1])

\* the names handed to the registry, in order
CountryLookups(s) ==
    IF IsError(Lookup(CountryName(s))) /\ ~IsError(AltName(s))
      THEN <<CountryName(s), AltName(s).str>>
      ELSE <<CountryName(s)>>

\* RunMetadata.fix_country_name
fix_country_name(data, field_name) ==
    IF ~IsStr(data)
      THEN AttributeError
      ELSE LET first == Lookup(CountryName(data.str))
               alt   == AltName(data.str)
           IN  IF ~IsError(first) THEN first
               ELSE IF IsError(alt) THEN InvalidValue(field_name, data.str)
               ELSE IF IsError(Lookup(alt.str)) THEN InvalidValue(field_name, data.str)
               ELSE Lookup(alt.str)

\* a latitude sign that looks at S alone
LatSign_SouthOnly(lat_dir) == IF lat_dir = <<"S">> THEN -1 ELSE 1
\* -1 if direction in ["S", "W"] else 1
LatSign(lat_dir) == IF lat_dir \in {<<"S">>, <<"W">>} THEN -1 ELSE 1
LonSign(lon_dir) == IF lon_dir \in {<<"S">>, <<"W">>} THEN -1 ELSE 1

Coordinate(lat, lon) == [latitude |-> lat, longitude |-> lon]
IsCoordinate(v) == "latitude" \in DOMAIN v

\* RunMetadata.fix_location
fix_location(data) ==
    IF ~IsStr(data)
      THEN AttributeError
      ELSE LET t == Tokens(data.str)
           IN  IF Len(t) # 4
                 THEN [error |-> "ValueError"]
                 ELSE LET lat == ParseFloat(t[1])
                          lon == ParseFloat(t[3])
                      IN  IF IsError(lat) \/ IsError(lon)
                            THEN [error |-> "ValueError"]
                            ELSE Coordinate(lat.float * LatSign(t[2]),
                                            lon.float * LonSign(t[4]))

(***************************************************************************)
(* The two record classes: the declared fields in order, each with its     *)
(* type, whether it is required, and the before-validator bound to it.     *)
(***************************************************************************)
Field(n, t, req, val) == [name |-> n, type |-> t, required |-> req, validator |-> val]

RunMetadata ==
    << Field("run_accession", "str", TRUE, "none"),
       Field("study_accession", "str", TRUE, "none"),
       Field("sample_accession", "str", TRUE, "none"),
       Field("library_strategy", "str", TRUE, "none"),
       Field("library_source", "str", TRUE, "none"),
       Field("sample_description", "str", FALSE, "none"),
       Field("first_public", "date", FALSE, "run_timestamp"),
       Field("country", "country", FALSE, "country"),
       Field("location", "coordinate", FALSE, "location"),
       Field("collection_date_start", "date", FALSE, "run_timestamp"),
       Field("collection_date_end", "date", FALSE, "run_timestamp"),
       Field("tax_id", "int", FALSE, "none"),
       Field("host_tax_id", "int", FALSE, "none") >>

SequenceMetadata ==
    << Field("accession", "str", TRUE, "none"),
       Field("description", "str", TRUE, "none"),
       Field("version", "int", TRUE, "none"),
       Field("project", "str", TRUE, "none"),
       Field("sample", "str", TRUE, "none"),
       Field("moleculeType", "str", TRUE, "none"),
       Field("taxon", "int", TRUE, "none"),
       Field("dataType", "str", TRUE, "none"),
       Field("dataClass", "str", TRUE, "none"),
       Field("firstPublic", "date", TRUE, "seq_timestamp"),
       Field("lastUpdated", "date", TRUE, "seq_timestamp"),
       Field("status", "int", TRUE, "none"),
       Field("statusDescription", "str", TRUE, "none"),
       Field("sequenceLength", "int", TRUE, "none"),
       Field("publications", "publications", FALSE, "none") >>

ValidationError == [error |-> "ValidationError"]
IsList(v) == "list" \in DOMAIN v

\* the before-validator of a field, applied to the raw value
BeforeValidator(f, v) ==
    CASE f.validator = "run_timestamp" -> Run_parse_single_timestamp(v, f.name)
      [] f.validator = "seq_timestamp" -> Seq_parse_single_timestamp(v, f.name)
      [] f.validator = "country" -> fix_country_name(v, f.name)
      [] f.validator = "location" -> fix_location(v)
      [] OTHER -> v

\* an int field takes a number, or a string of digits with an optional sign
ParseInt(s) ==
    LET body == IF Len(s) > 0 /\ s[1] \in {"-", "+"} THEN Tail(s) ELSE s
    IN  IF Len(body) > 0 /\ AllDigits(body)
          THEN Num((IF s[1] = "-" THEN -1 ELSE 1) * ToNat(body))
          ELSE ValidationError

\* the declared type's own validation, after the before-validator
TypeValidate(f, v) ==
    IF IsError(v) THEN v
    ELSE IF IsNone(v) THEN (IF f.required THEN ValidationError ELSE None)
    ELSE CASE f.type = "str" -> IF IsStr(v) THEN v ELSE ValidationError
           [] f.type = "int" ->
                IF IsNum(v) THEN v
                ELSE IF IsStr(v) THEN ParseInt(v.str)
                ELSE ValidationError
           [] f.type = "date" -> IF IsDate(v) THEN v ELSE ValidationError
           [] f.type = "country" ->
                IF IsStr(v) /\ \E c \in Countries : c.name = v.str THEN v ELSE ValidationError
           [] f.type = "coordinate" -> IF IsCoordinate(v) THEN v ELSE ValidationError
           [] f.type = "publications" -> IF IsList(v) THEN v ELSE ValidationError

\* a field that is missing or fails becomes None, the record is still built
ValidateField_DropsFailure(f, obj) ==
    IF f.name \notin DOMAIN obj
      THEN None
      ELSE LET v == TypeValidate(f, BeforeValidator(f, obj[f.name]))
           IN  IF IsError(v) THEN None ELSE v

\* one field of model_validate: a missing key gives the default or an error
ValidateField(f, obj) ==
    IF f.name \notin DOMAIN obj
      THEN (IF f.required THEN ValidationError ELSE None)
      ELSE TypeValidate(f, BeforeValidator(f, obj[f.name]))

IsMapping(obj) == ~IsNone(obj)

\* cls.model_validate(obj): the record, a ValidationError, or the exception
\* a validator raised that pydantic does not turn into a ValidationError
ModelValidate(cls, obj) ==
    IF ~IsMapping(obj)
      THEN ValidationError
      ELSE LET vals == [i \in 1..Len(cls) |-> ValidateField(cls[i], obj)]
               Escapes(i) == IsError(vals[i]) /\ vals[i].error \notin {"ValueError", "ValidationError"}
           IN  IF \E i \in 1..Len(cls) : Escapes(i)
                 THEN [error |-> vals[CHOOSE i \in 1..Len(cls) :
                                        Escapes(i) /\ \A j \in 1..(i - 1) : ~Escapes(j)].error]
               ELSE IF \E i \in 1..Len(cls) : IsError(vals[i])
                 THEN ValidationError
               ELSE [n \in {cls[i].name : i \in 1..Len(cls)} |->
                        vals[CHOOSE i \in 1..Len(cls) : cls[i].name = n]]

\* to_jsonable_python of one field value
JsonValue(v) ==
    IF IsDate(v) THEN Str(IsoFormat(v))
    ELSE IF IsCoordinate(v) THEN [dict |-> v]
    ELSE v

\* to_jsonable_python(record), read back by json.load: one JSON object
to_jsonable_python(record) == [n \in DOMAIN record |-> JsonValue(record[n])]

(***************************************************************************)
(* State of one notebook run.                                              *)
(***************************************************************************)
VARIABLES
    kind,       \* which notebook runs: "seq" or "run"
    n_tries,    \* the n_tries argument of the fetcher
    accession,  \* the accession argument of the call in progress
    pc,         \* position in the fetcher
    attempt,    \* the local attempt
    response,   \* the answer to the request of the current attempt
    metadata,   \* the local metadata
    e,          \* the RequestException caught by the current attempt
    trace,      \* requests, log records and sleeps of the call, in order
    outcome,    \* what the call gave its caller: a value or an exception
    idx,        \* position of the list comprehension in the accession list
    records,    \* the records the list comprehension has built so far
    fetched,    \* history: the accession and the value of every call that returned
    metadata_list, \* the name run_metadata / sample_metadata, once assigned
    json_file,  \* the array written by json.dump
    nfield,     \* the field whose validator is applied, or the record class
    entry,      \* the raw entry of the archive the mapping is taken from
    data,       \* the raw value handed to the validator or to model_validate
    result,     \* what the validator or model_validate gave
    lookups,    \* the names handed to the country registry, in order
    exported,   \* to_jsonable_python of the record
    revalidated \* model_validate of the exported object

fetch == <<kind, n_tries, accession, pc, attempt, response, metadata, e, trace, outcome>>
batch == <<idx, records, fetched, metadata_list, json_file>>
norm == <<nfield, entry, data, result, lookups, exported, revalidated>>
vars == <<fetch, batch, norm>>

Accessions(k) == IF k = "seq" THEN SEQUENCE_ACCESSIONS ELSE RUN_ACCESSIONS

Init ==
    /\ kind \in {"seq", "run"}
    /\ n_tries \in -1..MaxTries
    /\ accession = "none"
    /\ pc = "call"
    /\ attempt = 0
    /\ response = NoResponse
    /\ metadata = Unbound
    /\ e = Unbound
    /\ trace = <<>>
    /\ outcome = Running
    /\ idx = 1
    /\ records = <<>>
    /\ fetched = <<>>
    /\ metadata_list = Unbound
    /\ json_file = Unbound
    /\ nfield = "none"
    /\ entry = Unbound
    /\ data = Unbound
    /\ result = Unbound
    /\ lookups = <<>>
    /\ exported = Unbound
    /\ revalidated = Unbound

\* {k: v for k, v in metadata.items() if len(v)}
NonEmptyFields(d) == [k \in {f \in DOMAIN d : Len(d[f].str) > 0} |-> d[k]]

\* raise ValueError(f"No metadata found for '{accession}'")
NotFound(acc) == [type |-> "ValueError", accession |-> acc]
\* raise RequestException(f"Failed to retrieve data: {str(e)}") from e
FetchFailed(cause) == [type |-> "RequestException", cause |-> cause]

\* the loop entered once more: attempt <= n_tries
LoopCondition_Inclusive(a, n) == a <= n
\* while attempt < n_tries
LoopCondition(a, n) == a < n
\* a retry condition that is off by one
RetriesLeft_OffByOne(a, n) == a < n
\* if attempt < n_tries - 1
RetriesLeft(a, n) == a < n - 1
\* a return of the last summary instead of the first
FirstSummary_Last(summaries) == summaries[Len(summaries)]
\* return metadata[0]
FirstSummary(summaries) == summaries[1]

\* the attempt counter of the call before is kept
Call_KeepsAttempt ==
    /\ pc = "call"
    /\ accession' = Accessions(kind)[idx]
    /\ attempt' = attempt
    /\ response' = NoResponse
    /\ metadata' = Unbound
    /\ e' = Unbound
    /\ trace' = <<>>
    /\ outcome' = Running
    /\ pc' = "while"
    /\ UNCHANGED <<kind, n_tries, batch, norm>>

\* the comprehension calls the fetcher for the accession at idx: a fresh
\* frame, attempt = 0
Call ==
    /\ pc = "call"
    /\ accession' = Accessions(kind)[idx]
    /\ attempt' = 0
    /\ response' = NoResponse
    /\ metadata' = Unbound
    /\ e' = Unbound
    /\ trace' = <<>>
    /\ outcome' = Running
    /\ pc' = "while"
    /\ UNCHANGED <<kind, n_tries, batch, norm>>

\* the loop condition holds: requests.get(base_url, params=params) is
\* issued and answered
Request ==
    /\ pc = "while"
    /\ LoopCondition(attempt, n_tries)
    /\ \E r \in Responses(kind) :
          /\ response' = r
          /\ trace' = trace \o <<"request", r.kind>>
    /\ pc' = "try"
    /\ UNCHANGED <<kind, n_tries, accession, attempt, metadata, e, outcome, batch, norm>>

\* the loop condition fails: the function body ends without a return
FallOffEnd ==
    /\ pc = "while"
    /\ ~LoopCondition(attempt, n_tries)
    /\ outcome' = [returned |-> None]
    /\ pc' = "returned"
    /\ UNCHANGED <<kind, n_tries, accession, attempt, response, metadata, e, trace, batch, norm>>

\* requests.get / raise_for_status raise: control goes to the except clause
TransportFailure ==
    /\ pc = "try"
    /\ response.kind = "error"
    /\ e' = [type |-> response.exc, at |-> attempt + 1]
    /\ pc' = "except"
    /\ UNCHANGED <<kind, n_tries, accession, attempt, response, metadata, trace, outcome, batch, norm>>

\* the rest of the try body of get_sequence_metadata
SeqTryBody ==
    /\ pc = "try"
    /\ kind = "seq"
    /\ response.kind = "ok"
    /\ metadata' = response.json.summaries
    /\ IF Len(metadata') = 0
         THEN /\ outcome' = [raised |-> NotFound(accession)]
              /\ pc' = "raised"
         ELSE /\ outcome' = [returned |-> FirstSummary(metadata')]
              /\ pc' = "returned"
    /\ UNCHANGED <<kind, n_tries, accession, attempt, response, e, trace, batch, norm>>

\* the rest of the try body of get_run_metadata
RunTryBody ==
    /\ pc = "try"
    /\ kind = "run"
    /\ response.kind = "ok"
    /\ IF Len(response.json.array) = 0
         THEN \* response.json()[0] of an empty list
              /\ outcome' = [raised |-> [type |-> "IndexError"]]
              /\ pc' = "raised"
              /\ UNCHANGED metadata
         ELSE /\ metadata' = NonEmptyFields(response.json.array[1])
              /\ IF DOMAIN metadata' = {}
                   THEN /\ outcome' = [raised |-> NotFound(accession)]
                        /\ pc' = "raised"
                   ELSE /\ pc' = "incr"
                        /\ UNCHANGED outcome
    /\ UNCHANGED <<kind, n_tries, accession, attempt, response, e, trace, batch, norm>>

\* the info line logged on every failure, the last one included
Except_InfoAlways ==
    /\ pc = "except"
    /\ trace' = trace \o <<"warning", "info">>
    /\ IF RetriesLeft(attempt, n_tries)
         THEN pc' = "sleep" /\ UNCHANGED outcome
         ELSE outcome' = [raised |-> FetchFailed(e)] /\ pc' = "raised"
    /\ UNCHANGED <<kind, n_tries, accession, attempt, response, metadata, e, batch, norm>>

\* except RequestException as e: warning, then retry or give up
Except ==
    /\ pc = "except"
    /\ IF RetriesLeft(attempt, n_tries)
         THEN /\ trace' = trace \o <<"warning", "info">>
              /\ pc' = "sleep"
              /\ UNCHANGED outcome
         ELSE /\ trace' = Append(trace, "warning")
              /\ outcome' = [raised |-> FetchFailed(e)]
              /\ pc' = "raised"
    /\ UNCHANGED <<kind, n_tries, accession, attempt, response, metadata, e, batch, norm>>

\* time.sleep(wait)
Sleep ==
    /\ pc = "sleep"
    /\ trace' = Append(trace, "sleep")
    /\ pc' = "incr"
    /\ UNCHANGED <<kind, n_tries, accession, attempt, response, metadata, e, outcome, batch, norm>>

\* attempt += 1
Incr ==
    /\ pc = "incr"
    /\ attempt' = attempt + 1
    /\ pc' = "while"
    /\ UNCHANGED <<kind, n_tries, accession, response, metadata, e, trace, outcome, batch, norm>>

(***************************************************************************)
(* The batch cell: [Model.model_validate(get(acc)) for acc in ACCESSIONS],  *)
(* the assignment of the list, and the export cell.                        *)
(***************************************************************************)
RecordClass(k) == IF k = "run" THEN RunMetadata ELSE SequenceMetadata
IsValidated(v) == ~IsError(v)

\* a failed accession left out, the loop going on
NextAccession_SkipFailed ==
    /\ records' = records
    /\ UNCHANGED <<metadata_list, json_file>>
    /\ IF idx < Len(Accessions(kind))
         THEN idx' = idx + 1 /\ pc' = "call"
         ELSE idx' = idx /\ pc' = "assign"

\* the exception leaves the comprehension: the list built so far is dropped
\* and the name is not assigned
Raise ==
    /\ records' = <<>>
    /\ pc' = "failed"
    /\ UNCHANGED <<idx, metadata_list, json_file>>

\* the value the fetcher returned is validated and the record appended;
\* the loop goes on to the next accession, or the list is complete
ValidateReturned ==
    /\ pc = "returned"
    /\ fetched' = Append(fetched, [accession |-> accession, value |-> outcome.returned])
    /\ LET v == ModelValidate(RecordClass(kind), outcome.returned)
       IN  IF IsValidated(v)
             THEN /\ records' = Append(records, v)
                  /\ UNCHANGED <<metadata_list, json_file>>
                  /\ IF idx < Len(Accessions(kind))
                       THEN idx' = idx + 1 /\ pc' = "call"
                       ELSE idx' = idx /\ pc' = "assign"
             ELSE Raise
    /\ UNCHANGED <<kind, n_tries, accession, attempt, response, metadata, e, trace, outcome, norm>>

\* an exception of the fetcher is not caught by the cell
Propagate ==
    /\ pc = "raised"
    /\ Raise
    /\ UNCHANGED <<kind, n_tries, accession, attempt, response, metadata, e, trace, outcome, fetched, norm>>

\* run_metadata = [...] / sample_metadata = [...]
Assign ==
    /\ pc = "assign"
    /\ metadata_list' = records
    /\ pc' = "export"
    /\ UNCHANGED <<kind, n_tries, accession, attempt, response, metadata, e, trace, outcome,
                   idx, records, fetched, json_file, norm>>

\* json.dump(to_jsonable_python(run_metadata), fo, indent=2)
Dump ==
    /\ pc = "export"
    /\ json_file' = [i \in 1..Len(metadata_list) |-> to_jsonable_python(metadata_list[i])]
    /\ pc' = "done"
    /\ UNCHANGED <<kind, n_tries, accession, attempt, response, metadata, e, trace, outcome,
                   idx, records, fetched, metadata_list, norm>>

Next ==
    \/ Call
    \/ Request
    \/ FallOffEnd
    \/ TransportFailure
    \/ SeqTryBody
    \/ RunTryBody
    \/ Except
    \/ Sleep
    \/ Incr
    \/ ValidateReturned
    \/ Propagate
    \/ Assign
    \/ Dump

Spec == Init /\ [][Next]_vars

(***************************************************************************)
(* The validators and model_validate applied to raw values: the raw value  *)
(* is drawn first, then the validator of its field, or the record class,   *)
(* is applied to it; a valid record is exported and validated again.       *)
(***************************************************************************)
RECURSIVE Concat(_)
Concat(ps) == IF Len(ps) = 0 THEN <<>> ELSE Head(ps) \o Concat(Tail(ps))
RECURSIVE Join(_, _)
Join(ps, sep) ==
    IF Len(ps) = 0 THEN <<>>
    ELSE IF Len(ps) = 1 THEN ps[1]
    ELSE ps[1] \o sep \o Join(Tail(ps), sep)
Zs(n) == [i \in 1..n |-> "Z"]

DateFields == {"first_public", "collection_date_start", "collection_date_end"}
DateBodies ==
    { <<"2", "0", "2", "2", "-", "0", "3", "-", "2", "4">>, <<"2", "0", "2", "2">>, <<"2", "0", "2", "2", "-", "0", "3">>, <<"M", "a", "r", "c", "h", " ", "2", "0", "2", "2">>, <<"m", "a", "r", "c", "h", " ", " ", "2", "0", "2", "2">>,
      <<"n", "o", "t", "-", "a", "-", "d", "a", "t", "e">>, <<"2", "0", "2", "2", "-", "0", "2", "-", "3", "0">>, <<"2", "0", "2", "2", "-", "3", "-", "4">>, <<"2", "0", "2", "2", "-", "1", "3">>, <<"2", "4", "-", "M", "a", "r", "-", "2", "0", "2", "2">>,
      <<"2", "0", "2", "4", "-", "0", "2", "-", "2", "9">>, <<>> }
DateInputs == {Zs(a) \o b \o Zs(c) : a \in 0..MaxZ, b \in DateBodies, c \in 0..MaxZ}

CountryPieces ==
    { <<"R", "u", "s", "s", "i", "a">>, <<"r", "U", "S", "S", "I", "A">>, <<"B", "R">>, <<"X", "y">>, <<":">>, <<",">>, <<";">>, <<"/">>, <<" ">>, <<"(">>, <<")">> }
CountrySamples ==
    { <<"B", "r", "a", "z", "i", "l">>, <<"U", "S", "A", ":", " ", "C", "a", "l", "i", "f", "o", "r", "n", "i", "a">>, <<"U", "n", "k", "n", "o", "w", "n", " ", "P", "l", "a", "c", "e">>, <<"A", "t", "l", "a", "n", "t", "i", "s", ":", " ", "(", "B", "r", "a", "z", "i", "l", ")">>,
      <<"A", "t", "l", "a", "n", "t", "i", "s", " ", "(", "B", "r", "a", "z", "i", "l", ")">>, <<"R", "u", "s", "s", "i", "a", " ", "(", "B", "R", ")">> }
CountryInputs ==
    CountrySamples
    \cup {Concat(ps) : ps \in UNION {[1..n -> CountryPieces] : n \in 0..MaxPieces}}

Directions == { <<"N">>, <<"S">>, <<"E">>, <<"W">>, <<"s">> }
LatTokens == { <<"4", "3", ".", "9", "5">>, <<"1", "9", ".", "2", "8", "2", "2">>, <<"0">>, <<"-", "1", "0">>, <<"9", "0">> }
LonTokens == { <<"1", "1", "6", ".", "1", "3">>, <<"4", "3", ".", "5", "9", "3", "6">>, <<"1", "8", "0">>, <<"x">> }
LocationInputs ==
    {Join(<<a, d1, o, d2>>, <<" ">>) : a \in LatTokens, d1 \in Directions,
                                     o \in LonTokens, d2 \in Directions}
    \cup { <<"4", "3", ".", "9", "5", " ", "N", " ", "1", "1", "6", ".", "1", "3">>, <<"4", "3", ".", "9", "5", " ", "N", " ", "1", "1", "6", ".", "1", "3", " ", "E", " ", "7">>, <<" ", " ", "4", "3", ".", "9", "5", " ", " ", "S", "\t", "1", "1", "6", ".", "1", "3", " ", "W", " ">>, <<>> }

\* raw run entries of the archive: every requested field, empty or not
RunRawEntries ==
    { RunEntry(
          [run_accession |-> ra, study_accession |-> <<"P", "R", "J", "1">>,
           sample_accession |-> <<"S", "A", "M", "N", "1">>, library_strategy |-> <<"W", "G", "S">>,
           library_source |-> <<"G", "E", "N", "O", "M", "I", "C">>, first_public |-> fp, country |-> co,
           location |-> lo, tax_id |-> tx]) :
        ra \in { <<"S", "R", "R", "1">>, <<>> },
        fp \in { <<>>, <<"2", "0", "1", "8", "-", "0", "5", "-", "0", "3">>, <<"M", "a", "y", " ", "2", "0", "1", "8">>, <<"y", "e", "s", "t", "e", "r", "d", "a", "y">> },
        co \in { <<>>, <<"B", "r", "a", "z", "i", "l">>, <<"A", "t", "l", "a", "n", "t", "i", "s">> },
        lo \in { <<>>, <<"1", "9", ".", "2", " ", "S", " ", "4", "3", ".", "5", " ", "W">>, <<"1", "9", ".", "2", " ", "S">> },
        tx \in { <<>>, <<"9", "6", "0", "6">>, <<"x">> } }
\* raw run mappings, as get_run_metadata filters them: no empty value
RunRawMaps == {NonEmptyFields(en) : en \in RunRawEntries}

\* raw sequence summaries
SeqRawMaps ==
    LET withDates == {[SeqEntryNoPub EXCEPT !.firstPublic = Str(fp), !.version = v] :
                         fp \in { <<"0", "1", "-", "S", "e", "p", "-", "2", "0", "1", "8">>, <<"2", "0", "1", "8", "-", "0", "9", "-", "0", "1">>, <<"1", "-", "s", "e", "p", "-", "2", "0", "1", "8">> },
                         v \in {Num(1), Str(<<"1">>), Str(<<"o", "n", "e">>)}}
    IN  withDates
        \cup {m @@ [publications |-> Publications] : m \in withDates}
        \cup {[k \in DOMAIN m \ {"accession"} |-> m[k]] : m \in withDates}
        \cup {m @@ [publications |-> [list |-> <<>>]] : m \in withDates}
        \cup {m @@ [publications |-> None] : m \in withDates}
        \cup {SeqEntryEmpty}

NormInit ==
    /\ kind = "none"
    /\ n_tries = 0
    /\ accession = "none"
    /\ pc = "off"
    /\ attempt = 0
    /\ response = NoResponse
    /\ metadata = Unbound
    /\ e = Unbound
    /\ trace = <<>>
    /\ outcome = Running
    /\ idx = 0
    /\ records = <<>>
    /\ fetched = <<>>
    /\ metadata_list = Unbound
    /\ json_file = Unbound
    /\ \/ nfield \in DateFields /\ data \in DateInputs /\ entry = Unbound
       \/ nfield = "country" /\ data \in CountryInputs /\ entry = Unbound
       \/ nfield = "location" /\ data \in LocationInputs /\ entry = Unbound
       \/ nfield = "RunMetadata" /\ entry \in RunRawEntries /\ data = NonEmptyFields(entry)
       \/ nfield = "SequenceMetadata" /\ entry \in SeqRawMaps /\ data = entry
    /\ result = Unbound
    /\ lookups = <<>>
    /\ exported = Unbound
    /\ revalidated = Unbound

Class(n) == IF n = "RunMetadata" THEN RunMetadata ELSE SequenceMetadata
IsRecord(v) == ~IsError(v) /\ v # Unbound

\* RunMetadata.parse_single_timestamp on a raw string
ParseTimestamp ==
    /\ nfield \in DateFields
    /\ result = Unbound
    /\ result' = Run_parse_single_timestamp(Str(data), nfield)
    /\ UNCHANGED <<fetch, batch, nfield, entry, data, lookups, exported, revalidated>>

\* RunMetadata.fix_country_name on a raw string
FixCountry ==
    /\ nfield = "country"
    /\ result = Unbound
    /\ result' = fix_country_name(Str(data), nfield)
    /\ lookups' = CountryLookups(data)
    /\ UNCHANGED <<fetch, batch, nfield, entry, data, exported, revalidated>>

\* RunMetadata.fix_location on a raw string
FixLocation ==
    /\ nfield = "location"
    /\ result = Unbound
    /\ result' = fix_location(Str(data))
    /\ UNCHANGED <<fetch, batch, nfield, entry, data, lookups, exported, revalidated>>

\* RunMetadata.model_validate / SequenceMetadata.model_validate
Validate ==
    /\ nfield \in {"RunMetadata", "SequenceMetadata"}
    /\ result = Unbound
    /\ result' = ModelValidate(Class(nfield), data)
    /\ UNCHANGED <<fetch, batch, nfield, entry, data, lookups, exported, revalidated>>

\* to_jsonable_python of a record, written by json.dump
Export ==
    /\ nfield \in {"RunMetadata", "SequenceMetadata"}
    /\ IsRecord(result)
    /\ exported = Unbound
    /\ exported' = to_jsonable_python(result)
    /\ UNCHANGED <<fetch, batch, nfield, entry, data, result, lookups, revalidated>>

\* the exported object read back and validated again
Revalidate ==
    /\ exported # Unbound
    /\ revalidated = Unbound
    /\ revalidated' = ModelValidate(Class(nfield), exported)
    /\ UNCHANGED <<fetch, batch, nfield, entry, data, result, lookups, exported>>

NormNext ==
    \/ ParseTimestamp
    \/ FixCountry
    \/ FixLocation
    \/ Validate
    \/ Export
    \/ Revalidate

NormSpec == NormInit /\ [][NormNext]_vars

(***************************************************************************)
(* What one call did, read off its trace.                                  *)
(***************************************************************************)
Count(ev) == Cardinality({i \in 1..Len(trace) : trace[i] = ev})
IsAnswer(ev) == ev \in {"error", "ok"}
\* the answers to the requests of the call, in order
Answers == SelectSeq(trace, IsAnswer)
\* the current attempt's answer has been dealt with
Handled == pc \in {"while", "except", "sleep", "incr", "returned", "raised"}
\* every answer but the last was a transport failure
FailuresThen(last) ==
    /\ Len(Answers) >= 1
    /\ Answers[Len(Answers)] = last
    /\ \A i \in 1..(Len(Answers) - 1) : Answers[i] = "error"
\* the entries of the result set of a successful answer
ResultSet == IF kind = "seq" THEN response.json.summaries ELSE response.json.array
AllEmpty(en) == \A k \in DOMAIN en : IsStr(en[k]) /\ Len(en[k].str) = 0

(***************************************************************************)
(* C1.  get_sequence_metadata: when the first k attempts fail with a       *)
(* transport error and attempt k+1 succeeds with a non-empty summaries     *)
(* list, the call returns the first summary, having issued exactly k+1     *)
(* requests and slept exactly k times.                                     *)
(***************************************************************************)
C1_RetryThenSuccess ==
    (/\ kind = "seq"
     /\ Handled
     /\ FailuresThen("ok")
     /\ Len(ResultSet) > 0)
    => LET k == Len(Answers) - 1
       IN  /\ k < n_tries
           /\ pc = "returned"
           /\ outcome = [returned |-> ResultSet[1]]
           /\ Count("request") = k + 1
           /\ Count("sleep") = k

\* two failures, then success, with n_tries = 3: two sleeps
C1_Witness ==
    /\ kind = "seq"
    /\ n_tries = 3
    /\ pc = "returned"
    /\ Answers = <<"error", "error", "ok">>
    /\ Count("sleep") = 2
    /\ outcome = [returned |-> SeqEntryNoPub]

(***************************************************************************)
(* C2.  get_run_metadata: when an attempt succeeds and the first entry has *)
(* a non-empty field, the call ends at that attempt and returns that       *)
(* entry's non-empty fields; no request follows a successful attempt.      *)
(***************************************************************************)
C2_RunReturnsMapping ==
    (/\ kind = "run"
     /\ Handled
     /\ response.kind = "ok"
     /\ Len(ResultSet) > 0
     /\ ~AllEmpty(ResultSet[1]))
    => /\ pc = "returned"
       /\ outcome = [returned |-> NonEmptyFields(ResultSet[1])]
       /\ trace[Len(trace)] = "ok"

(***************************************************************************)
(* C3.  Both fetchers, n_tries >= 1: when every attempt fails with a       *)
(* transport error, exactly n_tries requests are issued, exactly           *)
(* n_tries - 1 sleeps occur, none after the last failed attempt, and the   *)
(* call raises a RequestException whose cause is the last attempt's error. *)
(***************************************************************************)
C3_AllAttemptsFail ==
    (/\ pc \in {"returned", "raised"}
     /\ n_tries >= 1
     /\ \A i \in 1..Len(Answers) : Answers[i] = "error")
    => /\ Count("request") = n_tries
       /\ Count("sleep") = n_tries - 1
       /\ trace[Len(trace)] = "warning"
       /\ outcome = [raised |-> FetchFailed([type |-> response.exc, at |-> n_tries])]

C3_Witness ==
    /\ n_tries = 3
    /\ pc = "raised"
    /\ Answers = <<"error", "error", "error">>
    /\ Count("sleep") = 2
    /\ outcome.raised.type = "RequestException"

(***************************************************************************)
(* C4.  Both fetchers: when an attempt succeeds with an empty result set,  *)
(* the call fails at that attempt with the not-found error for the         *)
(* accession; no sleep and no further request follows.                     *)
(***************************************************************************)
C4_EmptyResultNotFound ==
    (/\ Handled
     /\ response.kind = "ok"
     /\ Len(ResultSet) = 0)
    => /\ pc = "raised"
       /\ outcome = [raised |-> NotFound(accession)]
       /\ trace[Len(trace)] = "ok"

(***************************************************************************)
(* C5.  Both fetchers: when an attempt succeeds and the single entry has   *)
(* no non-empty field, the call fails with the not-found error for the     *)
(* accession and hands no mapping to the normalizer.                       *)
(***************************************************************************)
C5_AllEmptyEntryNotFound ==
    (/\ Handled
     /\ response.kind = "ok"
     /\ Len(ResultSet) = 1
     /\ AllEmpty(ResultSet[1]))
    => /\ pc = "raised"
       /\ outcome = [raised |-> NotFound(accession)]

(***************************************************************************)
(* C6.  Round trip: a record exported by to_jsonable_python and validated  *)
(* again by the same class gives a record equal to the original.           *)
(***************************************************************************)
C6_RoundTrip == (revalidated # Unbound) => (revalidated = result)

(***************************************************************************)
(* C7.  RunMetadata.fix_location on a four-token input "lat d1 lon d2"     *)
(* whose numbers are plain decimals within the coordinate range.           *)
(***************************************************************************)
LocationCase ==
    /\ nfield = "location"
    /\ result # Unbound
    /\ Len(Tokens(data)) = 4
    /\ IsFloat(ParseFloat(Tokens(data)[1]))
    /\ IsFloat(ParseFloat(Tokens(data)[3]))
    /\ ParseFloat(Tokens(data)[1]).float \in (-90 * Pow10(FracDigits))..(90 * Pow10(FracDigits))
    /\ ParseFloat(Tokens(data)[3]).float \in (-180 * Pow10(FracDigits))..(180 * Pow10(FracDigits))

\* C7 as claimed: the latitude is negated exactly when d1 is S, the
\* longitude exactly when d2 is W
C7_Original ==
    LocationCase =>
       LET t   == Tokens(data)
           lat == ParseFloat(t[1]).float
           lon == ParseFloat(t[3]).float
       IN  /\ IsCoordinate(result)
           /\ result.latitude = (IF t[2] = <<"S">> THEN -lat ELSE lat)
           /\ result.longitude = (IF t[4] = <<"W">> THEN -lon ELSE lon)

\* C7 as amended: each of the two numbers is negated when its own
\* direction token is S or W, and kept otherwise
C7_LocationSigns ==
    LocationCase =>
       LET t   == Tokens(data)
           lat == ParseFloat(t[1]).float
           lon == ParseFloat(t[3]).float
       IN  /\ IsCoordinate(result)
           /\ result.latitude = (IF t[2] = <<"S">> \/ t[2] = <<"W">> THEN -lat ELSE lat)
           /\ result.longitude = (IF t[4] = <<"S">> \/ t[4] = <<"W">> THEN -lon ELSE lon)

C7_Witness ==
    /\ nfield = "location"
    /\ data = <<"1", "9", ".", "2", "8", "2", "2", " ", "S", " ", "4", "3", ".", "5", "9", "3", "6", " ", "W">>
    /\ result = Coordinate(-192822 * Pow10(FracDigits - 4), -435936 * Pow10(FracDigits - 4))

(***************************************************************************)
(* C8.  RunMetadata.parse_single_timestamp: only a trailing Z is removed   *)
(* from the raw value, the four formats are tried in order and the first   *)
(* that matches gives the date; a value matching none fails with an error  *)
(* naming the field.                                                       *)
(***************************************************************************)
RemoveTrailingZ(s) ==
    IF Len(s) > 0 /\ s[Len(s)] = "Z" THEN SubSeq(s, 1, Len(s) - 1) ELSE s

C8_TrailingZOnly ==
    (nfield \in DateFields /\ result # Unbound) =>
       LET claimed == FirstFormat(RemoveTrailingZ(data), date_formats, nfield)
       IN  IF IsDate(claimed)
             THEN result = claimed
             ELSE IsError(result) /\ result.field = nfield

(***************************************************************************)
(* C9.  RunMetadata.fix_country_name: the name looked up first is the      *)
(* trimmed prefix of the raw value before the earliest of : , ; / (the     *)
(* whole value if none occurs), "russia" in any letter case replaced by    *)
(* "Russian Federation"; when that lookup succeeds the field value is the  *)
(* registry's canonical name.                                              *)
(***************************************************************************)
Separators == {":", ",", ";", "/"}
FirstSeparator(s) ==
    IF \E i \in 1..Len(s) : s[i] \in Separators
      THEN CHOOSE i \in 1..Len(s) :
              s[i] \in Separators /\ \A j \in 1..(i - 1) : s[j] \notin Separators
      ELSE Len(s) + 1
ClaimedName(s) ==
    LET prefix == Strip(SubSeq(s, 1, FirstSeparator(s) - 1))
    IN  IF Lower(prefix) = <<"r", "u", "s", "s", "i", "a">> THEN <<"R", "u", "s", "s", "i", "a", "n", " ", "F", "e", "d", "e", "r", "a", "t", "i", "o", "n">> ELSE prefix

C9_CountryLookupName ==
    (nfield = "country" /\ result # Unbound) =>
       /\ Len(lookups) >= 1
       /\ lookups[1] = ClaimedName(data)
       /\ \A c \in Countries :
             Lower(ClaimedName(data)) \in c.keys => result = Str(c.name)

C9_Witness ==
    /\ nfield = "country"
    /\ data = <<"U", "S", "A", ":", " ", "C", "a", "l", "i", "f", "o", "r", "n", "i", "a">>
    /\ lookups = << <<"U", "S", "A">> >>
    /\ result = Str(<<"U", "n", "i", "t", "e", "d", " ", "S", "t", "a", "t", "e", "s">>)

(***************************************************************************)
(* C10.  RunMetadata.fix_country_name, when the first lookup fails: the    *)
(* parenthesized name is taken from the original raw string and looked up; *)
(* the field validates whenever that name is known to the registry and     *)
(* fails only when both lookups fail.                                      *)
(***************************************************************************)
ClaimedAlt(s) ==
    LET p == Split(s, "(")
    IN  IF Len(p) < 2 THEN [error |-> "IndexError"] ELSE Str(Split(p[2], ")")[1])

C10_FallbackFromOriginal ==
    (/\ nfield = "country"
     /\ result # Unbound
     /\ IsError(Lookup(ClaimedName(data)))) =>
       LET alt == ClaimedAlt(data)
       IN  IF ~IsError(alt) /\ ~IsError(Lookup(alt.str))
             THEN result = Lookup(alt.str)
             ELSE IsError(result)


(***************************************************************************)
(* Optional fields of a record, and the raw values that count as empty.    *)
(***************************************************************************)
RecordClasses == {"RunMetadata", "SequenceMetadata"}
OptionalFields(cls) == {cls[i].name : i \in {j \in 1..Len(cls) : ~cls[j].required}}
IsEmptyValue(v) == IsNone(v) \/ v = Str(<<>>) \/ v = [list |-> <<>>]
\* the field is absent from the raw entry of the archive, or empty in it
ElidedInEntry(f) == f \notin DOMAIN entry \/ IsEmptyValue(entry[f])
\* a record came out of model_validate
Validated == nfield \in RecordClasses /\ result # Unbound /\ IsValidated(result)

(* C11. Every optional field that is absent from the raw entry, or empty   *)
(* in it, is None in the record and null in the exported object; no field  *)
(* of a run record, and no optional field of a sequence record, holds the  *)
(* empty string.                                                           *)
C11_EmptyOptionalElided ==
    Validated =>
        /\ \A f \in OptionalFields(Class(nfield)) :
              ElidedInEntry(f) =>
                  /\ result[f] = None
                  /\ exported # Unbound => exported[f] = None
        /\ \A f \in (IF nfield = "RunMetadata" THEN DOMAIN result
                                               ELSE OptionalFields(Class(nfield))) :
              result[f] # Str(<<>>)

(***************************************************************************)
(* What makes a raw mapping invalid: a required field it does not hold, or *)
(* a field it holds whose validator or type check fails.                   *)
(***************************************************************************)
FieldNames(cls) == {cls[i].name : i \in 1..Len(cls)}
RequiredFields(cls) == {cls[i].name : i \in {j \in 1..Len(cls) : cls[j].required}}
MissesRequired(cls, obj) == \E f \in RequiredFields(cls) : f \notin DOMAIN obj
FailsParser(cls, obj) ==
    \E i \in 1..Len(cls) :
        /\ cls[i].name \in DOMAIN obj
        /\ IsError(TypeValidate(cls[i], BeforeValidator(cls[i], obj[cls[i].name])))

(* C12. Validation of a raw mapping gives either a complete record, in     *)
(* which every field is set and every required field holds a value, or a   *)
(* validation error and no record; a mapping that misses a required field  *)
(* or holds a field that fails its parser gives the validation error.      *)
C12_AllOrNothing ==
    (nfield \in RecordClasses /\ result # Unbound) =>
        LET cls == Class(nfield)
            invalid == MissesRequired(cls, data) \/ FailsParser(cls, data)
        IN  /\ invalid => result = ValidationError
            /\ ~invalid =>
                  /\ IsValidated(result)
                  /\ DOMAIN result = FieldNames(cls)
                  /\ \A f \in RequiredFields(cls) : ~IsNone(result[f])

\* every required field is there and one optional field fails its parser
C12_Witness ==
    /\ nfield = "RunMetadata"
    /\ ~MissesRequired(RunMetadata, data)
    /\ "first_public" \in DOMAIN data
    /\ data["first_public"] = Str(<<"y", "e", "s", "t", "e", "r", "d", "a", "y">>)
    /\ "country" \in DOMAIN data
    /\ data["country"] = Str(<<"B", "r", "a", "z", "i", "l">>)
    /\ result = ValidationError

(* C13. In the trace of one call: a warning directly follows every         *)
(* transport failure and nothing else; an info line directly follows a     *)
(* warning and is directly followed by a sleep, and every sleep directly   *)
(* follows an info line; after a sleep comes another request; a successful *)
(* answer, empty or not, is followed by no warning, info line or sleep.    *)
C13_LogSleepOrder ==
    LET n == Len(trace)
    IN  /\ \A i \in 1..n :
              /\ trace[i] = "error" /\ i < n => trace[i + 1] = "warning"
              /\ trace[i] = "warning" => i > 1 /\ trace[i - 1] = "error"
              /\ trace[i] = "info" => i > 1 /\ trace[i - 1] = "warning"
              /\ trace[i] = "info" /\ i < n => trace[i + 1] = "sleep"
              /\ trace[i] = "sleep" => i > 1 /\ trace[i - 1] = "info"
              /\ trace[i] = "sleep" /\ i < n => trace[i + 1] = "request"
              /\ trace[i] = "ok" /\ i < n => trace[i + 1] = "request"
        /\ n > 0 =>
              \* the failure is about to be logged, the sleep and the next
              \* request are about to happen
              /\ trace[n] = "error" => pc \in {"try", "except"}
              /\ trace[n] = "info" => pc = "sleep"
              /\ trace[n] = "sleep" =>
                    \/ pc = "incr" /\ LoopCondition(attempt + 1, n_tries)
                    \/ pc = "while" /\ LoopCondition(attempt, n_tries)

\* a retried failure and then the last failure, which is logged without
\* an info line or a sleep
C13_Witness ==
    /\ n_tries = 2
    /\ pc = "raised"
    /\ trace = <<"request", "error", "warning", "info", "sleep",
                 "request", "error", "warning">>

(***************************************************************************)
(* The batch, read off the state of the comprehension.                     *)
(***************************************************************************)
\* a call of the fetcher is under way or has just ended
InCall == pc \in {"while", "try", "except", "sleep", "incr", "returned", "raised"}
\* the record of the i-th value a fetcher call returned
RecordOf(i) == ModelValidate(RecordClass(kind), fetched[i].value)

(* C14. The accessions are dealt with one after another in list order: a   *)
(* call works on the accession at idx and starts only when every earlier   *)
(* accession has been fetched and validated; at the loop head the attempt  *)
(* counter equals the number of answers of this call alone; the exported   *)
(* array holds one object per accession, the i-th from the i-th accession. *)
C14_OneAfterAnother ==
    LET accs == Accessions(kind)
    IN  /\ idx \in 1..Len(accs)
        /\ InCall => accession = accs[idx] /\ Len(records) = idx - 1
        /\ \A i \in 1..Len(records) :
              /\ fetched[i].accession = accs[i]
              /\ records[i] = RecordOf(i)
        /\ pc = "while" => attempt = Len(Answers)
        /\ json_file # Unbound =>
              /\ Len(json_file) = Len(accs)
              /\ \A i \in 1..Len(accs) :
                    /\ fetched[i].accession = accs[i]
                    /\ json_file[i] = to_jsonable_python(RecordOf(i))

\* the whole list exported, two accessions with different records, one of
\* them fetched at the second attempt
C14_Witness ==
    /\ kind = "seq"
    /\ pc = "done"
    /\ Len(json_file) = Len(SEQUENCE_ACCESSIONS)
    /\ fetched[1].value = SeqEntryPub
    /\ fetched[2].value = SeqEntryNoPub
    /\ Answers = <<"error", "ok">>

(***************************************************************************)
(* The requests and sleeps of one call, counted in its trace.              *)
(***************************************************************************)
Max0(n) == IF n > 0 THEN n ELSE 0
CallOver == pc \in {"returned", "raised"}

\* C15 as claimed: the attempt counter never exceeds n_tries
C15_Original ==
    InCall =>
        /\ Count("request") <= Max0(n_tries)
        /\ Count("sleep") <= Max0(n_tries - 1)
        /\ attempt <= n_tries

C15_Bounds ==
    /\ Count("request") <= Max0(n_tries)
    /\ Count("sleep") <= Max0(n_tries - 1)
    /\ attempt <= Max0(n_tries)

\* how far the call has come: five steps at most for each attempt
Position ==
    CASE pc = "while" -> 0
      [] pc = "try" -> 1
      [] pc = "except" -> 2
      [] pc = "sleep" -> 3
      [] pc = "incr" -> 4
      [] OTHER -> 0
Progress == 5 * attempt + Position

(* C15, amended. For every n_tries and every sequence of answers, a call   *)
(* issues at most max(n_tries, 0) requests and sleeps at most              *)
(* max(n_tries - 1, 0) times and its attempt counter never exceeds         *)
(* max(n_tries, 0); every step of the call either ends it or takes it      *)
(* further, no further than five steps for each allowed attempt, so the    *)
(* call ends.                                                              *)
C15_CallBounded ==
    [][(InCall /\ InCall') =>
          /\ C15_Bounds'
          /\ CallOver' \/ (Progress' > Progress /\ Progress' <= 5 * Max0(n_tries))]_vars

\* a run call with three tries that used them all: two failures slept on,
\* a success, and the loop left with attempt = n_tries
C15_Witness ==
    /\ kind = "run"
    /\ n_tries = 3
    /\ pc = "returned"
    /\ Answers = <<"error", "error", "ok">>
    /\ Count("request") = 3
    /\ Count("sleep") = 2
    /\ attempt = 3

\* the value the fetcher returned does not validate
ValidationFails == pc = "returned" /\ ~IsValidated(ModelValidate(RecordClass(kind), outcome.returned))

(* C16. When the fetcher raises, or the value it returned does not         *)
(* validate, the next step is the failure of the batch: the records built  *)
(* so far are dropped, no list is assigned and nothing is exported; after  *)
(* the failure no step is taken, so no later accession is requested.       *)
C16_BatchStops ==
    [][/\ pc = "raised" \/ ValidationFails => pc' = "failed"
       /\ pc' = "failed" =>
             /\ records' = <<>>
             /\ metadata_list' = Unbound
             /\ json_file' = Unbound
             /\ idx' = idx
             /\ trace' = trace
       /\ pc # "failed"]_vars

\* two accessions fetched and validated, the third one not found: the batch
\* has failed and the two records are gone
C16_Witness ==
    /\ kind = "seq"
    /\ pc = "failed"
    /\ idx = 3
    /\ Len(fetched) = 2
    /\ \A i \in 1..2 : IsValidated(RecordOf(i))
    /\ outcome = [raised |-> NotFound(SEQUENCE_ACCESSIONS[3])]
    /\ records = <<>>
    /\ metadata_list = Unbound
=============================================================================
